---------------------------- MODULE Spec2Model ----------------------------
(***************************************************************************)
(* Benchmark regression check and selective baseline merge.                *)
(*                                                                         *)
(*   .github/scripts/check_benchmark_regression.py  (RegressionChecker)    *)
(*   .github/scripts/merge_baseline_selective.py    (merge_baselines)      *)
(*                                                                         *)
(* Encoding of the Python values:                                          *)
(*   - a dict whose key order matters (a config row, a name -> x lookup)   *)
(*     is a sequence of <<key, value>> pairs with distinct keys;           *)
(*   - a JSON scalar is a pair <<tag, n>>: <<"num", n>> the number n,      *)
(*     <<"str", n>> the numeric string "n", <<"text", 0>> a string that    *)
(*     float() rejects, <<"none", 0>> Python's None;                       *)
(*   - an Optional object is <<>> (None) or <<x>>;                         *)
(*   - a float percentage is the exact fraction [num, den] with den > 0,   *)
(*     compared with a threshold by cross-multiplication;                  *)
(*   - file names are strings, ordered by FileRank the way Python orders   *)
(*     them ("" first).                                                    *)
(***************************************************************************)
EXTENDS Integers, Sequences, FiniteSets, TLC

VARIABLES
    pc,                 \* position of the process being modelled
    threshold_pct,      \* RegressionChecker.threshold_pct
    improvement_threshold_pct,
    checker,            \* the checker's four buckets and two file sets
    current_results,    \* ResultSet handed to compare_all
    baseline_results,   \* <<>> (None) or <<ResultSet>>
    result,             \* <<>> or <<return value of compare_all>>
    report,             \* <<>> or <<the report written by save_report>>
    old_baseline_dir,   \* merge input directory
    new_results_dir,    \* merge input directory
    output_dir,         \* merge output directory
    replay_dir,         \* output directory of a replay of the same merge
    merge_result,       \* <<>> or <<outcome of merge_baselines>>
    args,               \* command line of the check process
    exit_status,        \* <<>> or <<how the check process ended>>
    enum_order,         \* order in which this process enumerates sets, globs
    run,                \* 1 in the first check run, 2 in its repetition
    first_report        \* <<>> or <<the report the first run left>>

vars == <<pc, threshold_pct, improvement_threshold_pct, checker,
          current_results, baseline_results, result, report,
          old_baseline_dir, new_results_dir, output_dir, replay_dir,
          merge_result, args, exit_status, enum_order, run, first_report>>

checkVars == <<threshold_pct, improvement_threshold_pct, checker,
               current_results, baseline_results, result, report>>

mergeVars == <<old_baseline_dir, new_results_dir, output_dir, replay_dir,
               merge_result>>

cliVars == <<args, exit_status, enum_order, run, first_report>>

---------------------------------------------------------------------------
(* Bounds of the model.                                                    *)

MaxFiles == 2         \* bench files in a ResultSet, file names in a report
MaxConfigs == 2       \* config rows of the benchmark under classification

---------------------------------------------------------------------------
(* Python values.                                                          *)

None == <<>>
Some(x) == <<x>>

Num(n) == <<"num", n>>
Str(n) == <<"str", n>>
Text == <<"text", 0>>
NoneVal == <<"none", 0>>

\* float(v): raises ValueError / TypeError on a non-numeric value.
FloatOk(v) == v[1] \in {"num", "str"}
Float(v) == v[2]

\* dict as a sequence of <<key, value>> pairs
Keys(d) == [i \in 1..Len(d) |-> d[i][1]]
HasKey(d, k) == \E i \in 1..Len(d) : d[i][1] = k
Lookup(d, k) == d[CHOOSE i \in 1..Len(d) : d[i][1] = k][2]
\* d[k] = v: an existing key keeps its position, a new key goes last
DictSet(d, k, v) ==
    IF HasKey(d, k)
    THEN [i \in 1..Len(d) |-> IF d[i][1] = k THEN <<k, v>> ELSE d[i]]
    ELSE Append(d, <<k, v>>)
\* d.get(k) for a dict of JSON scalars
GetVal(d, k) == IF HasKey(d, k) THEN Lookup(d, k) ELSE NoneVal
\* d.get(k) for a dict of objects
GetOpt(d, k) == IF HasKey(d, k) THEN Some(Lookup(d, k)) ELSE None

Missing == "<missing>"      \* the key is not in the JSON object

---------------------------------------------------------------------------
(* File names and their order.                                             *)

AllFileNames == <<"bench_a_results.json", "bench_b_results.json",
                  "bench_c_results.json", "bench_d_results.json">>
FileNames == {AllFileNames[i] : i \in 1..MaxFiles}
Unknown == "unknown"
FileRank(f) ==
    IF f = "" THEN 0
    ELSE IF f = Unknown THEN Len(AllFileNames) + 1
    ELSE CHOOSE i \in 1..Len(AllFileNames) : AllFileNames[i] = f

RECURSIVE sorted(_)
\* sorted(S) of a set or list of file names, given here as the set S
sorted(S) ==
    IF S = {} THEN <<>>
    ELSE LET m == CHOOSE x \in S : \A y \in S : FileRank(x) <= FileRank(y)
         IN  <<m>> \o sorted(S \ {m})

Range(s) == {s[i] : i \in 1..Len(s)}

EnumOrders == {0, 1}
\* the order in which the running process meets the members of an unordered
\* collection (directory entries, a set of strings): ascending or descending
Enumerate(S) ==
    IF enum_order = 0 THEN sorted(S)
    ELSE [i \in 1..Cardinality(S) |-> sorted(S)[Cardinality(S) + 1 - i]]

---------------------------------------------------------------------------
(* RegressionChecker.__init__                                              *)

NewChecker ==
    [regressions |-> <<>>, improvements |-> <<>>, neutral |-> <<>>,
     no_baseline |-> <<>>,
     benchmark_files_with_regressions |-> {},
     benchmark_files_checked |-> {}]

\* improvement_threshold_pct if it is not None else threshold_pct
ImprovementThreshold(threshold, improvement) ==
    IF improvement = None THEN threshold ELSE improvement[1]

---------------------------------------------------------------------------
(* RegressionChecker.find_matching_config                                  *)

\* a search that returns the last row with an equal parameter value
find_last_matching_config(baseline_configs, current_config, param_name) ==
    LET current_param == GetVal(current_config, param_name)
        hits == {i \in 1..Len(baseline_configs) :
                    GetVal(baseline_configs[i], param_name) = current_param}
    IN  IF hits = {} THEN None
        ELSE Some(baseline_configs[CHOOSE i \in hits : \A j \in hits : j <= i])

find_matching_config(baseline_configs, current_config, param_name) ==
    LET current_param == GetVal(current_config, param_name)
        hits == {i \in 1..Len(baseline_configs) :
                    GetVal(baseline_configs[i], param_name) = current_param}
    IN  IF hits = {} THEN None
        ELSE Some(baseline_configs[CHOOSE i \in hits : \A j \in hits : i <= j])

---------------------------------------------------------------------------
(* RegressionChecker.compare_benchmark                                     *)

Backends == {"CuTile", "PyTorch", "Triton", "TorchCompile"}

\* a choice of the last key of the first row that is not a backend name
ParamNameLast(current_configs) ==
    LET ks == Keys(current_configs[1])
        nb == {i \in 1..Len(ks) : ks[i] \notin Backends}
    IN  IF nb = {} THEN None
        ELSE Some(ks[CHOOSE i \in nb : \A j \in nb : j <= i])

\* the first key of the first config row that is not a backend name
ParamName(current_configs) ==
    LET ks == Keys(current_configs[1])
        nb == {i \in 1..Len(ks) : ks[i] \notin Backends}
    IN  IF nb = {} THEN None
        ELSE Some(ks[CHOOSE i \in nb : \A j \in nb : i <= j])

\* ((current_val - baseline_val) / baseline_val) * 100, as an exact fraction
PctChange(current_val, baseline_val) ==
    [num |-> 100 * (current_val - baseline_val), den |-> baseline_val]

\* a regression test that takes the boundary in: pct_change <= -threshold
IsRegressionInclusive(pct_change, threshold) ==
    pct_change.num <= (0 - threshold) * pct_change.den

\* pct_change < -self.threshold_pct
IsRegression(pct_change, threshold) ==
    pct_change.num < (0 - threshold) * pct_change.den

\* pct_change > self.improvement_threshold_pct
IsImprovement(pct_change, improvement) ==
    pct_change.num > improvement * pct_change.den

\* lines 149-160: the three-zone if / elif / else, with its append
Classify(ck, comparison, threshold, improvement) ==
    IF IsRegression(comparison.change_pct, threshold)
    THEN [ck EXCEPT !.regressions =
             Append(@, comparison @@ [type |-> "regression"])]
    ELSE IF IsImprovement(comparison.change_pct, improvement)
    THEN [ck EXCEPT !.improvements =
             Append(@, comparison @@ [type |-> "improvement"])]
    ELSE [ck EXCEPT !.neutral =
             Append(@, comparison @@ [type |-> "neutral"])]

\* a pass that only refuses to divide by zero: baseline_val != 0
CompareCellNonZero(ck, current, current_config, baseline_config, param_name, backend, threshold, improvement) ==
    IF backend = param_name THEN ck
    ELSE IF ~HasKey(baseline_config, backend) THEN ck
    ELSE IF ~(FloatOk(Lookup(current_config, backend))
              /\ FloatOk(Lookup(baseline_config, backend))) THEN ck
    ELSE LET current_val == Float(Lookup(current_config, backend))
             baseline_val == Float(Lookup(baseline_config, backend))
         IN  IF baseline_val = 0 THEN ck
             ELSE Classify(ck,
                      [benchmark |-> current.name,
                       unit |-> IF current.unit = Missing THEN "unknown"
                                ELSE current.unit,
                       param |-> param_name,
                       param_value |-> Lookup(current_config, param_name),
                       backend |-> backend,
                       baseline |-> baseline_val,
                       current |-> current_val,
                       change_pct |-> PctChange(current_val, baseline_val)],
                      threshold, improvement)

\* one pass of the loop over the backends of a matched config pair (119-160)
CompareCell(ck, current, current_config, baseline_config, param_name, backend, threshold, improvement) ==
    IF backend = param_name THEN ck
    ELSE IF ~HasKey(baseline_config, backend) THEN ck
    ELSE IF ~(FloatOk(Lookup(current_config, backend))
              /\ FloatOk(Lookup(baseline_config, backend))) THEN ck
    ELSE LET current_val == Float(Lookup(current_config, backend))
             baseline_val == Float(Lookup(baseline_config, backend))
         IN  IF ~(baseline_val > 0) THEN ck
             ELSE Classify(ck,
                      [benchmark |-> current.name,
                       unit |-> IF current.unit = Missing THEN "unknown"
                                ELSE current.unit,
                       param |-> param_name,
                       param_value |-> Lookup(current_config, param_name),
                       backend |-> backend,
                       baseline |-> baseline_val,
                       current |-> current_val,
                       change_pct |-> PctChange(current_val, baseline_val)],
                      threshold, improvement)

RECURSIVE CompareBackends(_, _, _, _, _, _, _, _)
\* the loop of line 119 from its k-th key on
CompareBackends(ck, current, current_config, baseline_config, param_name, k, threshold, improvement) ==
    IF k > Len(current_config) THEN ck
    ELSE CompareBackends(
             CompareCell(ck, current, current_config, baseline_config,
                         param_name, current_config[k][1], threshold, improvement),
             current, current_config, baseline_config, param_name, k + 1,
             threshold, improvement)

RECURSIVE CompareConfigs(_, _, _, _, _, _, _)
\* the loop of line 112 from its i-th config row on
CompareConfigs(ck, current, baseline_configs, param_name, i, threshold, improvement) ==
    IF i > Len(current.configs) THEN ck
    ELSE LET current_config == current.configs[i]
             baseline_config ==
                 find_matching_config(baseline_configs, current_config, param_name)
         IN  CompareConfigs(
                 IF baseline_config = None THEN ck
                 ELSE CompareBackends(ck, current, current_config,
                                      baseline_config[1], param_name, 1,
                                      threshold, improvement),
                 current, baseline_configs, param_name, i + 1,
                 threshold, improvement)

\* the checker after compare_benchmark(current, baseline); baseline is
\* None or Some(benchmark)
compare_benchmark(ck, current, baseline, threshold, improvement) ==
    IF baseline = None
    THEN [ck EXCEPT !.no_baseline = Append(@, current.name)]
    ELSE IF current.configs = <<>> THEN ck
    ELSE LET param_name == ParamName(current.configs)
         IN  IF param_name = None THEN ck
             ELSE CompareConfigs(ck, current, baseline[1].configs,
                                 param_name[1], 1, threshold, improvement)

---------------------------------------------------------------------------
(* RegressionChecker.compare_all                                           *)

\* bench_file.get("benchmark_file", "unknown")
FileNameOf(bench_file) ==
    IF bench_file.benchmark_file = Missing THEN Unknown
    ELSE bench_file.benchmark_file

RECURSIVE Flatten(_, _)
\* the <<file name, benchmark>> pairs met by the two nested loops over
\* results["benchmarks"][i]["benchmarks"], from file i on
Flatten(files, i) ==
    IF i > Len(files) THEN <<>>
    ELSE [k \in 1..Len(files[i].benchmarks) |->
             <<FileNameOf(files[i]), files[i].benchmarks[k]>>]
         \o Flatten(files, i + 1)

RECURSIVE BenchmarkToFileFirst(_, _, _)
\* a lookup in which the first file that holds a name keeps it
BenchmarkToFileFirst(d, pairs, k) ==
    IF k > Len(pairs) THEN d
    ELSE BenchmarkToFileFirst(
             IF HasKey(d, pairs[k][2].name) THEN d
             ELSE Append(d, <<pairs[k][2].name, pairs[k][1]>>),
             pairs, k + 1)

RECURSIVE BenchmarkToFile(_, _, _)
\* current_benchmark_to_file[bench["name"]] = file_name, pair k on
BenchmarkToFile(d, pairs, k) ==
    IF k > Len(pairs) THEN d
    ELSE BenchmarkToFile(DictSet(d, pairs[k][2].name, pairs[k][1]), pairs, k + 1)

\* a flattening that keeps one item per occurrence of a name
BenchmarksByOccurrence(d, pairs, k) ==
    d \o [i \in 1..(Len(pairs) - k + 1) |->
            <<pairs[i + k - 1][2].name, pairs[i + k - 1][2]>>]

RECURSIVE BenchmarksByName(_, _, _)
\* benchmarks[bench["name"]] = bench, pair k on
BenchmarksByName(d, pairs, k) ==
    IF k > Len(pairs) THEN d
    ELSE BenchmarksByName(DictSet(d, pairs[k][2].name, pairs[k][2]), pairs, k + 1)

\* lines 174-176: every file entry's name is added to benchmark_files_checked
FilesChecked(files) == {FileNameOf(files[i]) : i \in 1..Len(files)}

\* lines 198-201: mark the benchmark's file when new regressions were found
MarkRegressed(ck, regressions_before, file_name) ==
    IF Len(ck.regressions) > regressions_before
    THEN IF file_name # None /\ file_name[1] # ""
         THEN [ck EXCEPT !.benchmark_files_with_regressions =
                  @ \cup {file_name[1]}]
         ELSE ck
    ELSE ck

RECURSIVE CompareLoop(_, _, _, _, _, _, _)
\* the loop of line 192 over current_benchmarks.items(), item k on
CompareLoop(ck, current_benchmarks, baseline_benchmarks, to_file, k, threshold, improvement) ==
    IF k > Len(current_benchmarks) THEN ck
    ELSE LET name == current_benchmarks[k][1]
             after == compare_benchmark(ck, current_benchmarks[k][2],
                          GetOpt(baseline_benchmarks, name),
                          threshold, improvement)
         IN  CompareLoop(
                 MarkRegressed(after, Len(ck.regressions), GetOpt(to_file, name)),
                 current_benchmarks, baseline_benchmarks, to_file, k + 1,
                 threshold, improvement)

\* the checker after compare_all(current, baseline)
compare_all(ck, current, baseline, threshold, improvement) ==
    LET pairs == Flatten(current.benchmarks, 1)
        to_file == BenchmarkToFile(<<>>, pairs, 1)
        current_benchmarks == BenchmarksByName(<<>>, pairs, 1)
        baseline_benchmarks ==
            IF baseline = None THEN <<>>
            ELSE BenchmarksByName(<<>>, Flatten(baseline[1].benchmarks, 1), 1)
        ck1 == [ck EXCEPT !.benchmark_files_checked =
                   @ \cup FilesChecked(current.benchmarks)]
    IN  CompareLoop(ck1, current_benchmarks, baseline_benchmarks, to_file, 1,
                    threshold, improvement)

\* the dict compare_all returns
CompareResult(ck) ==
    [no_regressions |-> Len(ck.regressions) = 0,
     has_improvements |-> Len(ck.improvements) > 0]

---------------------------------------------------------------------------
(* RegressionChecker.save_report                                           *)

\* a safe list that forgets to take the regressed files out
FilesSafeToUpdateAll(ck) == sorted(ck.benchmark_files_checked)

\* a safe list left in the order in which the set difference is iterated
FilesSafeToUpdateUnsorted(ck) ==
    Enumerate(ck.benchmark_files_checked \ ck.benchmark_files_with_regressions)

\* line 268
FilesSafeToUpdate(ck) ==
    sorted(ck.benchmark_files_checked \ ck.benchmark_files_with_regressions)

\* an update decision that does not ask for an improvement
ShouldUpdateBaselineNoRegression(ck) == Len(ck.regressions) = 0

\* line 280
ShouldUpdateBaseline(ck) ==
    Len(ck.regressions) = 0 /\ Len(ck.improvements) > 0

\* a partial-update flag that only asks for a safe file
CanDoPartialUpdateAnySafe(ck) == Len(FilesSafeToUpdate(ck)) > 0

\* lines 285-286
CanDoPartialUpdate(ck) ==
    Len(FilesSafeToUpdate(ck)) > 0
    /\ Cardinality(ck.benchmark_files_with_regressions) > 0

\* the report dict that save_report dumps
BuildReport(ck, threshold, improvement) ==
    [threshold_pct |-> threshold,
     improvement_threshold_pct |-> improvement,
     summary |->
        [regressions |-> Len(ck.regressions),
         improvements |-> Len(ck.improvements),
         neutral |-> Len(ck.neutral),
         no_baseline |-> Len(ck.no_baseline),
         should_update_baseline |-> ShouldUpdateBaseline(ck),
         total_benchmark_files |-> Cardinality(ck.benchmark_files_checked),
         files_with_regressions |->
             Cardinality(ck.benchmark_files_with_regressions),
         files_safe_to_update |-> Len(FilesSafeToUpdate(ck)),
         can_do_partial_update |-> CanDoPartialUpdate(ck)],
     regressions |-> ck.regressions,
     improvements |-> ck.improvements,
     neutral |-> ck.neutral,
     no_baseline |-> ck.no_baseline,
     benchmark_files |->
        [all_files |-> sorted(ck.benchmark_files_checked),
         files_with_regressions |->
             sorted(ck.benchmark_files_with_regressions),
         files_safe_to_update |-> FilesSafeToUpdate(ck)]]

---------------------------------------------------------------------------
(* Directories.  A directory is [exists, files]; files maps every name to  *)
(* None (no such file) or Some(parsed JSON content).                       *)

Combined == "all_benchmarks.json"
ReportName == "regression_report.json"   \* a file that is no result artifact
DirNames == FileNames \cup {Combined, ReportName}

NoDir == [exists |-> FALSE, files |-> [n \in DirNames |-> None]]
EmptyDir == [exists |-> TRUE, files |-> [n \in DirNames |-> None]]

\* (dir / name).exists()
FileExists(dir, name) == dir.exists /\ dir.files[name] # None
\* the names of the per-file artifacts present in dir
PerFileNames(dir) == {n \in FileNames : FileExists(dir, n)}

\* a directory creation that starts from an empty directory
MkdirFresh(dir) == EmptyDir

\* output_dir.mkdir(parents=True, exist_ok=True)
Mkdir(dir) == [dir EXCEPT !.exists = TRUE]

\* shutil.copy2(source_dir / name, output_dir / name)
Copy2(source_dir, out, name) == [out EXCEPT !.files[name] = source_dir.files[name]]

\* a listing that leaves the names in the order they were met
UnsortedList(l) == l

RECURSIVE SortedList(_)
\* sorted(list) of file names
SortedList(l) ==
    IF l = <<>> THEN <<>>
    ELSE LET i == CHOOSE i \in 1..Len(l) :
                    /\ \A j \in 1..Len(l) : FileRank(l[i]) <= FileRank(l[j])
                    /\ \A j \in 1..(i - 1) : FileRank(l[j]) # FileRank(l[i])
         IN  <<l[i]>> \o SortedList(SubSeq(l, 1, i - 1) \o SubSeq(l, i + 1, Len(l)))

---------------------------------------------------------------------------
(* RegressionChecker.load_results                                          *)

\* content of a file that json.load rejects
Malformed == [text |-> "<not json>"]

\* content of a path that exists but cannot be opened and read as a file
\* (a directory of that name, a file without read permission)
Unreadable == [text |-> "<unreadable>"]

\* json.load(f): the exception raised ("" for none) and the value returned
json_load(content) ==
    IF content = Malformed
    THEN [raised |-> "JSONDecodeError", value |-> None]
    ELSE [raised |-> "", value |-> Some(content)]

\* results_dir.glob("*_results.json")
Glob(dir) == Enumerate({n \in DirNames : FileExists(dir, n) /\ n \in FileNames})

RECURSIVE LoadIndividual(_, _, _, _)
\* the loop of lines 66-68 from the k-th file on
LoadIndividual(dir, names, k, results) ==
    IF k > Len(names) THEN [raised |-> "", value |-> Some(results)]
    ELSE LET parsed == json_load(dir.files[names[k]][1])
         IN  IF parsed.raised # "" THEN parsed
             ELSE LoadIndividual(dir, names, k + 1,
                      [results EXCEPT !.benchmarks = Append(@, parsed.value[1])])

\* checker.load_results(results_dir)
load_results(results_dir) ==
    IF ~results_dir.exists
    THEN [raised |-> "FileNotFoundError", value |-> None]
    ELSE IF FileExists(results_dir, Combined)
    THEN json_load(results_dir.files[Combined][1])
    ELSE LoadIndividual(results_dir, SortedList(Glob(results_dir)), 1,
                        [benchmarks |-> <<>>])

---------------------------------------------------------------------------
(* merge_baselines                                                         *)

\* a regressed branch that adopts the new file when there is one
ResolveRegressedTakesNew(st, bench_file, old, new) ==
    IF FileExists(new, bench_file)
    THEN [st EXCEPT !.out = Copy2(new, @, bench_file),
                    !.used_new = Append(@, bench_file)]
    ELSE IF FileExists(old, bench_file)
    THEN [st EXCEPT !.out = Copy2(old, @, bench_file),
                    !.kept_old_regressions = Append(@, bench_file)]
    ELSE st

\* lines 80-93: the file is in files_with_regressions
ResolveRegressed(st, bench_file, old, new) ==
    IF FileExists(old, bench_file)
    THEN [st EXCEPT !.out = Copy2(old, @, bench_file),
                    !.kept_old_regressions = Append(@, bench_file)]
    ELSE IF FileExists(new, bench_file)
    THEN [st EXCEPT !.out = Copy2(new, @, bench_file),
                    !.used_new = Append(@, bench_file)]
    ELSE st

\* a not-regressed branch that keeps the old file when there is one
ResolveSafeKeepsOld(st, bench_file, old, new) ==
    IF FileExists(old, bench_file)
    THEN [st EXCEPT !.out = Copy2(old, @, bench_file),
                    !.kept_old_fallback = Append(@, bench_file)]
    ELSE IF FileExists(new, bench_file)
    THEN [st EXCEPT !.out = Copy2(new, @, bench_file),
                    !.used_new = Append(@, bench_file)]
    ELSE st

\* lines 94-107: the file is not in files_with_regressions
ResolveSafe(st, bench_file, old, new) ==
    IF FileExists(new, bench_file)
    THEN [st EXCEPT !.out = Copy2(new, @, bench_file),
                    !.used_new = Append(@, bench_file)]
    ELSE IF FileExists(old, bench_file)
    THEN [st EXCEPT !.out = Copy2(old, @, bench_file),
                    !.kept_old_fallback = Append(@, bench_file)]
    ELSE st

\* a pass that holds back every file the report does not list as safe
ResolveFileBySafeList(st, bench_file, old, new, files_with_regressions) ==
    IF bench_file \notin Range(report[1].benchmark_files.files_safe_to_update)
    THEN ResolveRegressed(st, bench_file, old, new)
    ELSE ResolveSafe(st, bench_file, old, new)

\* one pass of the loop of line 78
ResolveFile(st, bench_file, old, new, files_with_regressions) ==
    IF bench_file \in files_with_regressions
    THEN ResolveRegressed(st, bench_file, old, new)
    ELSE ResolveSafe(st, bench_file, old, new)

\* shutil.copy2 raised in the pass that led from before to after: the pass
\* copied, and what it copied was a source that cannot be read
Copy2Raised(before, after, name) ==
    after # before /\ after.out.files[name] = Some(Unreadable)

RECURSIVE ResolveAll(_, _, _, _, _, _)
\* the loop of line 78, from the k-th name of all_files on; an exception of
\* shutil.copy2 is not caught: it ends the loop before the copy and before
\* the append that follows it
ResolveAll(st, all_files, k, old, new, files_with_regressions) ==
    IF k > Len(all_files) THEN st
    ELSE LET after == ResolveFile(st, all_files[k], old, new,
                                  files_with_regressions)
         IN  IF Copy2Raised(st, after, all_files[k])
             THEN [st EXCEPT !.raised = "OSError"]
             ELSE ResolveAll(after, all_files, k + 1, old, new,
                             files_with_regressions)

\* line 114: the condition under which the combined artifact is rebuilt
HaveAnyFiles(out, all_files) == FileExists(out, all_files[1])

RECURSIVE ReadBack(_, _, _)
\* lines 120-124: the artifacts read back from the output directory
ReadBack(out, names, k) ==
    IF k > Len(names) THEN <<>>
    ELSE (IF FileExists(out, names[k]) THEN <<out.files[names[k]][1]>> ELSE <<>>)
         \o ReadBack(out, names, k + 1)

\* lines 115-124: the exception raised ("" for none) by the reads of the
\* rebuild: json.load of the new combined artifact for its timestamp, then
\* open and json.load of every per-file artifact of the output directory
RebuildRaised(out, new, all_files) ==
    LET names == SortedList(all_files)
        bad == {i \in 1..Len(names) :
                   /\ FileExists(out, names[i])
                   /\ out.files[names[i]][1] \in {Malformed, Unreadable}}
        first == CHOOSE i \in bad : \A j \in bad : i <= j
    IN  IF FileExists(new, Combined) /\ new.files[Combined][1] = Unreadable
        THEN "OSError"
        ELSE IF FileExists(new, Combined) /\ new.files[Combined][1] = Malformed
        THEN "JSONDecodeError"
        ELSE IF bad = {} THEN ""
        ELSE IF out.files[names[first]][1] = Malformed THEN "JSONDecodeError"
        ELSE "OSError"

\* lines 115-127
RebuildCombined(out, new, all_files) ==
    [out EXCEPT !.files[Combined] =
        Some([timestamp |-> IF FileExists(new, Combined)
                            THEN new.files[Combined][1].timestamp
                            ELSE "unknown",
              benchmarks |-> ReadBack(out, SortedList(all_files), 1)])]

\* a validation that does not look at the old baseline directory
validate_inputs_new_only(old_baseline, new_results, regression_report) ==
    IF ~new_results.exists THEN 1
    ELSE IF regression_report = None THEN 1
    ELSE 0

\* validate_inputs: the code of its sys.exit, 0 when it returns
validate_inputs(old_baseline, new_results, regression_report) ==
    IF ~old_baseline.exists THEN 1
    ELSE IF ~new_results.exists THEN 1
    ELSE IF regression_report = None THEN 1
    ELSE 0

\* merge_baselines(old, new, report, out): the output directory it leaves,
\* the exception it raised ("" when it returned) and the value it returned
merge_baselines(old, new, rep, out) ==
    LET files_with_regressions == Range(rep.benchmark_files.files_with_regressions)
        all_files == rep.benchmark_files.all_files
        st == ResolveAll([out |-> Mkdir(out),
                          kept_old_regressions |-> <<>>,
                          kept_old_fallback |-> <<>>,
                          used_new |-> <<>>,
                          raised |-> ""],
                         all_files, 1, old, new, files_with_regressions)
    IN  IF st.raised # ""
        THEN [out |-> st.out, raised |-> st.raised, value |-> FALSE]
        ELSE IF all_files = <<>>
        THEN [out |-> st.out, raised |-> "IndexError", value |-> FALSE]
        ELSE IF HaveAnyFiles(st.out, all_files)
                /\ RebuildRaised(st.out, new, all_files) # ""
        THEN [out |-> st.out,
              raised |-> RebuildRaised(st.out, new, all_files),
              value |-> FALSE]
        ELSE [out |-> IF HaveAnyFiles(st.out, all_files)
                      THEN RebuildCombined(st.out, new, all_files)
                      ELSE st.out,
              raised |-> "",
              value |-> Len(st.kept_old_regressions) = 0]

---------------------------------------------------------------------------
(* Inputs: result artifacts in the format the tests build                  *)
(* (test_selective_baseline_merge.py, create_benchmark_result).            *)

Row(p, v) == << <<"N", Str(p)>>, <<"CuTile", Num(v)>> >>
Row2(p, v, w) == << <<"N", Str(p)>>, <<"CuTile", Num(v)>>, <<"PyTorch", Num(w)>> >>
Bench(name, configs) == [name |-> name, unit |-> "GBps", configs |-> configs]
BenchFile(file_field, benches) ==
    [benchmark_file |-> file_field, status |-> "PASSED", benchmarks |-> benches]
ResultSet(files) == [timestamp |-> "2025-01-01T00:00:00Z", benchmarks |-> files]

AllBenchNames == <<"bench-a", "bench-b", "bench-c", "bench-d">>
SharedBench == "bench-shared"
BenchNames == {AllBenchNames[i] : i \in 1..MaxFiles} \cup {SharedBench}

BaseVal == 100            \* the accepted baseline measurement
RegressedVal == 90        \* -10 %
ImprovedVal == 120        \* +20 %
StaleVal == 80            \* a measurement left by an earlier merge
CheckVals == {RegressedVal, BaseVal, ImprovedVal}

\* the benchmark lists of the i-th file entry of a current ResultSet
BenchLists(i) ==
    {<<>>}
    \cup {<<Bench(AllBenchNames[i], <<Row(1024, v)>>)>> : v \in CheckVals}
    \cup {<<Bench(AllBenchNames[i], <<Row(1024, v)>>),
            Bench(SharedBench, <<Row(1024, w)>>)>> :
             v \in {RegressedVal, ImprovedVal}, w \in {RegressedVal, ImprovedVal}}
    \cup {<<Bench(AllBenchNames[i], <<Row(1024, BaseVal)>>),
            Bench(SharedBench, <<Row(1024, BaseVal)>>)>>}

FileFields(i) == {AllFileNames[i], "", Missing}

FileEntries(i) == {BenchFile(f, b) : f \in FileFields(i), b \in BenchLists(i)}

RECURSIVE FileLists(_)
\* the lists of n file entries
FileLists(n) ==
    IF n = 0 THEN {<<>>}
    ELSE {Append(l, e) : l \in FileLists(n - 1), e \in FileEntries(n)}

CurrentResultSets ==
    {ResultSet(l) : l \in UNION {FileLists(n) : n \in 0..MaxFiles}}

\* a baseline holding every benchmark in names, one per file, at BaseVal
BaselineOf(names) ==
    ResultSet([i \in 1..Len(names) |->
                  BenchFile(AllFileNames[i], <<Bench(names[i], <<Row(1024, BaseVal)>>)>>)])

BaselineResultSets ==
    {None,
     Some(BaselineOf(SubSeq(AllBenchNames, 1, MaxFiles))),
     Some(BaselineOf(<<SharedBench>> \o SubSeq(AllBenchNames, 1, MaxFiles)))}

DefaultThreshold == 5     \* --threshold default
LenientImprovement == 10  \* improvement threshold of test_asymmetric_thresholds

---------------------------------------------------------------------------
(* The check phase: main() of check_benchmark_regression.py                *)

\* a check process started as the tests drive it: a baseline and an output
\* path are given, the strict flag is not
DefaultArgs == [baseline |-> TRUE, output |-> TRUE, fail_on_regression |-> FALSE]

CliIdle ==
    /\ args = DefaultArgs
    /\ exit_status = None
    /\ enum_order = 0
    /\ run = 1
    /\ first_report = None

MergeIdle ==
    /\ old_baseline_dir = NoDir
    /\ new_results_dir = NoDir
    /\ output_dir = NoDir
    /\ replay_dir = NoDir
    /\ merge_result = None

Init ==
    /\ pc = "check"
    /\ threshold_pct = DefaultThreshold
    /\ \E imp \in {None, Some(LenientImprovement)} :
          improvement_threshold_pct = ImprovementThreshold(threshold_pct, imp)
    /\ checker = NewChecker
    /\ current_results \in CurrentResultSets
    /\ baseline_results \in BaselineResultSets
    /\ result = None
    /\ report = None
    /\ MergeIdle
    /\ CliIdle

\* result = checker.compare_all(current, baseline)
CompareAll ==
    /\ pc = "check"
    /\ checker' = compare_all(checker, current_results, baseline_results,
                              threshold_pct, improvement_threshold_pct)
    /\ result' = Some(CompareResult(checker'))
    /\ pc' = "compared"
    /\ UNCHANGED <<threshold_pct, improvement_threshold_pct, current_results,
                   baseline_results, report>>
    /\ UNCHANGED mergeVars
    /\ UNCHANGED cliVars

\* checker.save_report(args.output)
SaveReport ==
    /\ pc = "compared"
    /\ args.output
    /\ report' = Some(BuildReport(checker, threshold_pct, improvement_threshold_pct))
    /\ pc' = "reported"
    /\ UNCHANGED <<threshold_pct, improvement_threshold_pct, checker,
                   current_results, baseline_results, result>>
    /\ UNCHANGED mergeVars
    /\ UNCHANGED cliVars

Next == CompareAll \/ SaveReport

Spec == Init /\ [][Next]_vars

---------------------------------------------------------------------------
(* Properties of the check phase.                                          *)

Compared == pc \in {"compared", "reported"}
Reported == pc = "reported"
TheReport == report[1]

\* the file entries of the current ResultSet that hold a benchmark called name
EntriesHolding(name) ==
    {i \in 1..Len(current_results.benchmarks) :
        \E k \in 1..Len(current_results.benchmarks[i].benchmarks) :
            current_results.benchmarks[i].benchmarks[k].name = name}

\* the file that owns the benchmark compared under this name: the entry the
\* compared benchmark object was taken from
OwnerOf(name) ==
    FileNameOf(current_results.benchmarks[
        CHOOSE i \in EntriesHolding(name) : \A j \in EntriesHolding(name) : j <= i])

\* the file has a benchmark with an entry in the regression bucket
FileRegressed(f) ==
    \E k \in 1..Len(checker.regressions) :
        OwnerOf(checker.regressions[k].benchmark) = f

FileImproved(f) ==
    /\ ~FileRegressed(f)
    /\ \E k \in 1..Len(checker.improvements) :
          OwnerOf(checker.improvements[k].benchmark) = f

\* C4: in a saved report files_safe_to_update is files_checked minus
\* files_with_regressions as a set; the two lists are disjoint, their union
\* is all_files and files_with_regressions is a subset of all_files.
C4_SafeIsCheckedMinusRegressed ==
    Reported =>
        LET bf == TheReport.benchmark_files
            regressed == Range(bf.files_with_regressions)
            safe == Range(bf.files_safe_to_update)
            all == Range(bf.all_files)
        IN  /\ safe = checker.benchmark_files_checked
                        \ checker.benchmark_files_with_regressions
            /\ all = checker.benchmark_files_checked
            /\ regressed = checker.benchmark_files_with_regressions
            /\ regressed \cap safe = {}
            /\ regressed \cup safe = all
            /\ regressed \subseteq all
            /\ Len(bf.files_safe_to_update) = Cardinality(safe)

\* a saved report of a mixed run: one file held back, one safe to update
C4_Witness ==
    /\ Reported
    /\ TheReport.benchmark_files.files_with_regressions # <<>>
    /\ TheReport.benchmark_files.files_safe_to_update # <<>>

\* C5: after compare_all a file name is in files_with_regressions iff a
\* regression entry of the run belongs to a benchmark owned by that file,
\* whatever the file's benchmark_file field (missing and empty included); so
\* the regression bucket is non-empty iff the set is.
C5_RegressedFilesExact ==
    Compared =>
        /\ \A f \in FileNames \cup {"", Unknown} :
              f \in checker.benchmark_files_with_regressions <=> FileRegressed(f)
        /\ (checker.regressions # <<>>
              <=> checker.benchmark_files_with_regressions # {})

C7_CanDoPartialUpdate ==
    Reported =>
        LET s == TheReport.summary
            bf == TheReport.benchmark_files
            files == checker.benchmark_files_checked
        IN  /\ s.can_do_partial_update
                 <=> (bf.files_safe_to_update # <<>>
                      /\ bf.files_with_regressions # <<>>)
            /\ (files # {} /\ \A f \in files : FileImproved(f))
                 => ~s.can_do_partial_update
            /\ (files # {} /\ \A f \in files : FileRegressed(f))
                 => ~s.can_do_partial_update

\* the benchmark names of a ResultSet
NamesIn(results) ==
    UNION {{results.benchmarks[i].benchmarks[k].name :
               k \in 1..Len(results.benchmarks[i].benchmarks)} :
           i \in 1..Len(results.benchmarks)}

\* the current benchmarks that have no baseline counterpart
Uncompared ==
    IF baseline_results = None THEN NamesIn(current_results)
    ELSE NamesIn(current_results) \ NamesIn(baseline_results[1])

\* the comparisons recorded for the benchmark called name
ComparisonsOf(name) ==
    LET all == checker.regressions \o checker.improvements \o checker.neutral
    IN  {k \in 1..Len(all) : all[k].benchmark = name}

FirstOwnerOf(name) ==
    FileNameOf(current_results.benchmarks[
        CHOOSE i \in EntriesHolding(name) : \A j \in EntriesHolding(name) : i <= j])

\* the benchmark names with an entry in the regression bucket
RegressedNames ==
    {checker.regressions[k].benchmark : k \in 1..Len(checker.regressions)}

\* C20 as claimed: when a regressed benchmark's name occurs in more than one
\* file, the file marked in files_with_regressions is the file of its first
\* occurrence (stated for occurrences whose file names are not empty).
C20_FirstOccurrenceOwns ==
    Compared =>
        \A n \in RegressedNames :
            (Cardinality(EntriesHolding(n)) > 1
               /\ FirstOwnerOf(n) # "" /\ OwnerOf(n) # "")
              => FirstOwnerOf(n) \in checker.benchmark_files_with_regressions

\* C20 as amended: the owner of a benchmark name is the file of its last
\* occurrence, the occurrence that is compared: when the benchmark
\* regresses that file is marked unless its name is the empty string, and no
\* file is marked that is not the last-occurrence file of a regressed name.
C20_LastOccurrenceOwns ==
    Compared =>
        /\ \A n \in RegressedNames :
              OwnerOf(n) # "" =>
                  OwnerOf(n) \in checker.benchmark_files_with_regressions
        /\ \A f \in checker.benchmark_files_with_regressions :
              \E n \in RegressedNames : OwnerOf(n) = f

\* the shared benchmark regressed: its last file is marked, its first is not
C20_Witness ==
    /\ Compared
    /\ SharedBench \in RegressedNames
    /\ Cardinality(EntriesHolding(SharedBench)) = 2
    /\ FirstOwnerOf(SharedBench) \in FileNames
    /\ OwnerOf(SharedBench) \in checker.benchmark_files_with_regressions
    /\ FirstOwnerOf(SharedBench) \notin checker.benchmark_files_with_regressions

\* C28: in a saved report should_update_baseline and can_do_partial_update
\* are never both true, total_benchmark_files is files_with_regressions plus
\* files_safe_to_update, and every summary count is the length of the list
\* it summarizes.
C28_SummaryConsistent ==
    Reported =>
        LET s == TheReport.summary
            bf == TheReport.benchmark_files
        IN  /\ ~(s.should_update_baseline /\ s.can_do_partial_update)
            /\ s.total_benchmark_files
                 = s.files_with_regressions + s.files_safe_to_update
            /\ s.total_benchmark_files = Len(bf.all_files)
            /\ s.files_with_regressions = Len(bf.files_with_regressions)
            /\ s.files_safe_to_update = Len(bf.files_safe_to_update)
            /\ s.regressions = Len(TheReport.regressions)
            /\ s.improvements = Len(TheReport.improvements)
            /\ s.neutral = Len(TheReport.neutral)
            /\ s.no_baseline = Len(TheReport.no_baseline)

\* a saved report of a run with an improved file and a regressed file: the
\* partial update is on, the full update is off
C28_Witness ==
    /\ Reported
    /\ TheReport.summary.can_do_partial_update
    /\ TheReport.improvements # <<>>
    /\ TheReport.summary.total_benchmark_files = 2

\* C22 as claimed: after compare_all a file name is in files_checked iff a
\* processed benchmark is owned by that file; the name of a file entry with
\* an empty benchmark list is not in the set.
C22_FilesCheckedAreOwners ==
    Compared =>
        \A f \in FileNames \cup {"", Unknown} :
            f \in checker.benchmark_files_checked
              <=> \E n \in NamesIn(current_results) : OwnerOf(n) = f

\* the place of a benchmark name in the ascending order of the names
BenchRank(name) ==
    IF name = SharedBench THEN Len(AllBenchNames) + 1
    ELSE CHOOSE i \in 1..Len(AllBenchNames) : AllBenchNames[i] = name

\* C25 as claimed: every list of a saved report is sorted: the three file
\* lists ascend without duplicates, and no_baseline and the regression,
\* improvement and neutral lists are in ascending order of benchmark name.
C25_ReportListsSorted ==
    Reported =>
        LET bf == TheReport.benchmark_files
            Ascending(l) ==
                \A i, j \in 1..Len(l) : i < j => FileRank(l[i]) < FileRank(l[j])
            ByName(l) ==
                \A i, j \in 1..Len(l) :
                    i < j => BenchRank(l[i].benchmark) <= BenchRank(l[j].benchmark)
        IN  /\ Ascending(bf.all_files)
            /\ Ascending(bf.files_with_regressions)
            /\ Ascending(bf.files_safe_to_update)
            /\ \A i, j \in 1..Len(TheReport.no_baseline) :
                  i < j => BenchRank(TheReport.no_baseline[i])
                             <= BenchRank(TheReport.no_baseline[j])
            /\ ByName(TheReport.regressions)
            /\ ByName(TheReport.improvements)
            /\ ByName(TheReport.neutral)

---------------------------------------------------------------------------
(* A checker instance used twice: compare_all is called a second time on   *)
(* the same RegressionChecker with the same current and baseline results.  *)

\* checker.compare_all(current, baseline), called again on the same instance
CompareAgain ==
    /\ pc = "compared"
    /\ checker' = compare_all(checker, current_results, baseline_results,
                              threshold_pct, improvement_threshold_pct)
    /\ result' = Some(CompareResult(checker'))
    /\ pc' = "recompared"
    /\ UNCHANGED <<threshold_pct, improvement_threshold_pct, current_results,
                   baseline_results, report>>
    /\ UNCHANGED mergeVars
    /\ UNCHANGED cliVars

NextReuse == CompareAll \/ CompareAgain

SpecReuse == Init /\ [][NextReuse]_vars

\* C29 as claimed: a second compare_all on the same checker with the same
\* inputs leaves the four buckets and both file sets as the first call left
\* them: nothing is duplicated or carried over.
C29_SecondCallKeepsBuckets ==
    [][(pc = "compared" /\ pc' = "recompared") => checker' = checker]_vars

---------------------------------------------------------------------------
(* Classification of one benchmark: compare_benchmark on a fresh checker.  *)
(* The first config row carries the cell under test (any current value     *)
(* against a baseline of 0, 100 or 200); the further rows carry two        *)
(* backends each, against a baseline of 100.                               *)

StrictThreshold == 2      \* regression threshold of test_asymmetric_thresholds
DoubleBaseVal == 200
ParamStep == 1024         \* N of the first row; row i has N = i * 1024

\* current values around every zone boundary of the thresholds in use
ClassifyVals ==
    {90, 94, 95, 96, 97, 98, 99, 100, 104, 105, 106, 109, 110, 111,
     189, 190, 191, 209, 210, 211, 219, 220, 221}
ClassifyBaseVals == {0, BaseVal, DoubleBaseVal}

RECURSIVE ExtraRows(_)
\* the lists of rows 2..n of the current benchmark
ExtraRows(n) ==
    IF n <= 1 THEN {<<>>}
    ELSE {Append(l, Row2(n * ParamStep, v, w)) :
             l \in ExtraRows(n - 1), v \in CheckVals, w \in CheckVals}

ClassifyCurrents ==
    {Bench("bench-a", <<Row(ParamStep, c)>> \o rest) :
        c \in ClassifyVals, rest \in UNION {ExtraRows(n) : n \in 1..MaxConfigs}}

\* the baseline benchmark: the same rows as current, at the baseline values
ClassifyBaseline(current, b) ==
    Bench("bench-a",
          [i \in 1..Len(current.configs) |->
              IF i = 1 THEN Row(ParamStep, b)
              ELSE Row2(i * ParamStep, BaseVal, BaseVal)])

ThresholdArgs ==
    {<<DefaultThreshold, None>>,
     <<DefaultThreshold, Some(LenientImprovement)>>,
     <<StrictThreshold, Some(LenientImprovement)>>}

InitClassify ==
    /\ pc = "classify"
    /\ \E thr \in ThresholdArgs :
          /\ threshold_pct = thr[1]
          /\ improvement_threshold_pct = ImprovementThreshold(thr[1], thr[2])
    /\ checker = NewChecker
    /\ \E cur \in ClassifyCurrents, b \in ClassifyBaseVals :
          /\ current_results = ResultSet(<<BenchFile(AllFileNames[1], <<cur>>)>>)
          /\ baseline_results =
                Some(ResultSet(<<BenchFile(AllFileNames[1],
                                           <<ClassifyBaseline(cur, b)>>)>>))
    /\ result = None
    /\ report = None
    /\ MergeIdle
    /\ CliIdle

CurrentBench == current_results.benchmarks[1].benchmarks[1]
BaselineBench == baseline_results[1].benchmarks[1].benchmarks[1]

\* checker.compare_benchmark(current_bench, baseline_bench)
CompareBenchmark ==
    /\ pc = "classify"
    /\ checker' = compare_benchmark(checker, CurrentBench, Some(BaselineBench),
                                    threshold_pct, improvement_threshold_pct)
    /\ pc' = "classified"
    /\ UNCHANGED <<threshold_pct, improvement_threshold_pct, current_results,
                   baseline_results, result, report>>
    /\ UNCHANGED mergeVars
    /\ UNCHANGED cliVars

NextClassify == CompareBenchmark

SpecClassify == InitClassify /\ [][NextClassify]_vars

\* the comparable cells <<row, backend>> of the benchmark under test
Cells ==
    {c \in (1..Len(CurrentBench.configs)) \X Backends :
        /\ HasKey(CurrentBench.configs[c[1]], c[2])
        /\ HasKey(BaselineBench.configs[c[1]], c[2])
        /\ Lookup(BaselineBench.configs[c[1]], c[2])[2] > 0}

CellCurrent(c) == Lookup(CurrentBench.configs[c[1]], c[2])[2]
CellBaseline(c) == Lookup(BaselineBench.configs[c[1]], c[2])[2]

\* the bucket the claim assigns to a cell, from pct = 100 * (c - b) / b
ZoneOf(c) ==
    IF 100 * (CellCurrent(c) - CellBaseline(c))
          < (0 - threshold_pct) * CellBaseline(c)
    THEN "regression"
    ELSE IF 100 * (CellCurrent(c) - CellBaseline(c))
               > improvement_threshold_pct * CellBaseline(c)
    THEN "improvement"
    ELSE "neutral"

BucketOf(zone) ==
    IF zone = "regression" THEN checker.regressions
    ELSE IF zone = "improvement" THEN checker.improvements
    ELSE checker.neutral

\* the entries of a bucket recorded for a cell
EntriesFor(zone, c) ==
    {k \in 1..Len(BucketOf(zone)) :
        /\ BucketOf(zone)[k].param_value = Str(c[1] * ParamStep)
        /\ BucketOf(zone)[k].backend = c[2]}

Zones == {"regression", "improvement", "neutral"}

---------------------------------------------------------------------------
(* Matching of config rows: compare_benchmark on a benchmark whose rows    *)
(* carry the parameter as a number or as a string, against a baseline      *)
(* whose rows may repeat a parameter value or lack the parameter column.   *)

NextParam == 2048         \* a second value of the parameter column

MatchParams == {Num(ParamStep), Str(ParamStep), Num(NextParam)}

\* a config row with parameter value p (a JSON scalar), or, for p = NoneVal,
\* without the parameter column
MatchRow(p, v) ==
    IF p = NoneVal THEN << <<"CuTile", Num(v)>> >>
    ELSE << <<"N", p>>, <<"CuTile", Num(v)>> >>

RECURSIVE RowLists(_, _)
\* the lists of n rows drawn from rows
RowLists(rows, n) ==
    IF n = 0 THEN {<<>>}
    ELSE {Append(l, r) : l \in RowLists(rows, n - 1), r \in rows}

MatchCurrents ==
    {Bench("bench-a", l) :
        l \in UNION {RowLists({MatchRow(p, RegressedVal) : p \in MatchParams}, n) :
                        n \in 1..MaxConfigs}}

MatchBaselines ==
    {Bench("bench-a", l) :
        l \in UNION {RowLists({MatchRow(p, b) : p \in MatchParams \cup {NoneVal},
                                                b \in {BaseVal, DoubleBaseVal}}, n) :
                        n \in 0..MaxConfigs}}

InitMatch ==
    /\ pc = "classify"
    /\ threshold_pct = DefaultThreshold
    /\ improvement_threshold_pct = ImprovementThreshold(DefaultThreshold, None)
    /\ checker = NewChecker
    /\ \E cur \in MatchCurrents, base \in MatchBaselines :
          /\ current_results = ResultSet(<<BenchFile(AllFileNames[1], <<cur>>)>>)
          /\ baseline_results =
                Some(ResultSet(<<BenchFile(AllFileNames[1], <<base>>)>>))
    /\ result = None
    /\ report = None
    /\ MergeIdle
    /\ CliIdle

SpecMatch == InitMatch /\ [][NextClassify]_vars

\* the baseline rows whose parameter value equals that of current row i
HitsOf(i) ==
    {j \in 1..Len(BaselineBench.configs) :
        /\ HasKey(BaselineBench.configs[j], "N")
        /\ Lookup(BaselineBench.configs[j], "N")
             = Lookup(CurrentBench.configs[i], "N")}

FirstHitOf(i) == CHOOSE j \in HitsOf(i) : \A h \in HitsOf(i) : j <= h

\* the current rows that have a baseline row, in list order
MatchedRows ==
    SelectSeq([i \in 1..Len(CurrentBench.configs) |-> i],
              LAMBDA i : HitsOf(i) # {})

\* C19: find_matching_config returns the first baseline row, in list order,
\* whose parameter value equals the current row's (a string never equals a
\* number) and none when there is no such row; compare_benchmark compares
\* each matched current row with that first row and a current row without
\* a match adds no comparison and stops nothing.
C19_FirstEqualRow ==
    pc = "classified" =>
        /\ \A i \in 1..Len(CurrentBench.configs) :
              find_matching_config(BaselineBench.configs,
                                   CurrentBench.configs[i], "N")
                = IF HitsOf(i) = {} THEN None
                  ELSE Some(BaselineBench.configs[FirstHitOf(i)])
        /\ Len(checker.regressions) = Len(MatchedRows)
        /\ \A k \in 1..Len(MatchedRows) :
              /\ checker.regressions[k].param_value
                   = Lookup(CurrentBench.configs[MatchedRows[k]], "N")
              /\ checker.regressions[k].baseline
                   = Lookup(BaselineBench.configs[FirstHitOf(MatchedRows[k])],
                            "CuTile")[2]
        /\ checker.improvements = <<>>
        /\ checker.neutral = <<>>
        /\ checker.no_baseline = <<>>

\* a current row without a match is followed by one whose parameter value
\* is in two baseline rows with different measurements, a third baseline
\* row holding the same number as a string
C19_Witness ==
    /\ pc = "classified"
    /\ Len(CurrentBench.configs) >= 2
    /\ HitsOf(1) = {}
    /\ Cardinality(HitsOf(2)) = 2
    /\ \E j \in HitsOf(2) : \E h \in HitsOf(2) :
          BaselineBench.configs[j] # BaselineBench.configs[h]
    /\ Len(checker.regressions) = 1
    /\ checker.regressions[1].baseline
         = Lookup(BaselineBench.configs[FirstHitOf(2)], "CuTile")[2]

---------------------------------------------------------------------------
(* Baseline values that cannot be a denominator: compare_all on a current  *)
(* ResultSet of two benchmarks, the first with two backends per row, over  *)
(* a baseline whose cells of the first benchmark are negative, zero (as a  *)
(* number or as the string "0") or positive.                               *)

SkipBaseVals == {Num(0 - BaseVal), Num(0), Str(0), Num(BaseVal)}

SkipCurrent(n) ==
    ResultSet(<<BenchFile(AllFileNames[1],
        <<Bench("bench-a", [i \in 1..n |->
                    Row2(i * ParamStep, RegressedVal, ImprovedVal)]),
          Bench("bench-b", <<Row(ParamStep, RegressedVal)>>)>>)>>)

\* the baselines whose first benchmark has n rows
SkipBaselines(n) ==
    {ResultSet(<<BenchFile(AllFileNames[1],
        <<Bench("bench-a", rows), Bench("bench-b", <<Row(ParamStep, BaseVal)>>)>>)>>) :
        rows \in RowLists({<< <<"N", Str(0)>>, <<"CuTile", b>>, <<"PyTorch", c>> >> :
                              b \in SkipBaseVals, c \in SkipBaseVals}, n)}

\* row i of a baseline gets the parameter value of row i of the current set
SkipBaselineOf(base) ==
    [base EXCEPT !.benchmarks[1].benchmarks[1].configs =
        [i \in 1..Len(@) |-> [@[i] EXCEPT ![1] = <<"N", Str(i * ParamStep)>>]]]

InitSkip ==
    /\ pc = "check"
    /\ threshold_pct = DefaultThreshold
    /\ improvement_threshold_pct = ImprovementThreshold(DefaultThreshold, None)
    /\ checker = NewChecker
    /\ \E n \in 1..MaxConfigs : \E base \in SkipBaselines(n) :
          /\ current_results = SkipCurrent(n)
          /\ baseline_results = Some(SkipBaselineOf(base))
    /\ result = None
    /\ report = None
    /\ MergeIdle
    /\ CliIdle

NextSkip == CompareAll

SpecSkip == InitSkip /\ [][NextSkip]_vars

\* the cells <<row, backend>> of the first benchmark, and their baselines
SkipCells == (1..Len(CurrentBench.configs)) \X {"CuTile", "PyTorch"}
SkipBaseline(c) == Lookup(BaselineBench.configs[c[1]], c[2])[2]

\* the comparisons recorded for a cell of the first benchmark
SkipEntries(c) ==
    LET all == checker.regressions \o checker.improvements \o checker.neutral
    IN  {k \in 1..Len(all) :
            /\ all[k].benchmark = "bench-a"
            /\ all[k].param_value = Str(c[1] * ParamStep)
            /\ all[k].backend = c[2]}

\* C13: a cell whose baseline value is <= 0 adds no entry to any bucket,
\* and the comparison goes on: every other cell of the row, of the later
\* rows and of the next benchmark has its one entry.
C13_NonPositiveBaselineSkipped ==
    Compared =>
        /\ \A c \in SkipCells :
              Cardinality(SkipEntries(c)) = IF SkipBaseline(c) > 0 THEN 1 ELSE 0
        /\ Cardinality(ComparisonsOf("bench-b")) = 1
        /\ Len(checker.regressions) + Len(checker.improvements)
             + Len(checker.neutral)
             = Cardinality({c \in SkipCells : SkipBaseline(c) > 0}) + 1
        /\ checker.no_baseline = <<>>

\* a zero and a negative baseline in the first row, both skipped, and the
\* comparison of the second row and of the next benchmark recorded
C13_Witness ==
    /\ Compared
    /\ Len(CurrentBench.configs) >= 2
    /\ SkipBaseline(<<1, "CuTile">>) = 0
    /\ SkipBaseline(<<1, "PyTorch">>) < 0
    /\ SkipBaseline(<<2, "CuTile">>) = 0
    /\ SkipEntries(<<1, "CuTile">>) = {}
    /\ SkipEntries(<<1, "PyTorch">>) = {}
    /\ SkipEntries(<<2, "PyTorch">>) # {}
    /\ ComparisonsOf("bench-b") # {}

---------------------------------------------------------------------------
(* Columns of a config row: compare_all on a current ResultSet of two      *)
(* benchmarks, the first with rows of one shape (an order of column        *)
(* names) and any number of rows from none on, over a baseline that has    *)
(* the same rows at the baseline measurement, with or without their last   *)
(* column.                                                                 *)

\* the orders of column names of a row
ColumnShapes ==
    {<<"N", "CuTile">>, <<"CuTile", "N">>, <<"CuTile", "PyTorch">>,
     <<"N", "M", "CuTile">>, <<"M", "N", "CuTile">>, <<"N", "CuTile", "Note">>}

\* what the CuTile column of a current row may hold
ColumnVals == {Num(RegressedVal), Str(ImprovedVal), Text, NoneVal}

\* row i of the given shape with v in its CuTile column
ColumnRow(shape, i, v) ==
    [k \in 1..Len(shape) |->
        <<shape[k],
          CASE shape[k] = "N" -> Str(i * ParamStep)
            [] shape[k] = "M" -> Num(i * ParamStep)
            [] shape[k] = "CuTile" -> v
            [] shape[k] = "PyTorch" -> Num(BaseVal)
            [] OTHER -> Text>>]

ColumnCurrent(shape, vals) ==
    ResultSet(<<BenchFile(AllFileNames[1],
        <<Bench("bench-a", [i \in 1..Len(vals) |-> ColumnRow(shape, i, vals[i])]),
          Bench("bench-b", <<Row(ParamStep, RegressedVal)>>)>>)>>)

\* the baseline of n rows (one row for a current benchmark without rows),
\* each without its last column when drop is set
ColumnBaseline(shape, n, drop) ==
    ResultSet(<<BenchFile(AllFileNames[1],
        <<Bench("bench-a",
                [i \in 1..(IF n = 0 THEN 1 ELSE n) |->
                    SubSeq(ColumnRow(shape, i, Num(BaseVal)), 1,
                           IF drop THEN Len(shape) - 1 ELSE Len(shape))]),
          Bench("bench-b", <<Row(ParamStep, BaseVal)>>)>>)>>)

InitColumns ==
    /\ pc = "check"
    /\ threshold_pct = DefaultThreshold
    /\ improvement_threshold_pct = ImprovementThreshold(DefaultThreshold, None)
    /\ checker = NewChecker
    /\ \E shape \in ColumnShapes, drop \in BOOLEAN :
       \E vals \in UNION {RowLists(ColumnVals, n) : n \in 0..MaxConfigs} :
          /\ current_results = ColumnCurrent(shape, vals)
          /\ baseline_results = Some(ColumnBaseline(shape, Len(vals), drop))
    /\ result = None
    /\ report = None
    /\ MergeIdle
    /\ CliIdle

NextColumns == CompareAll

SpecColumns == InitColumns /\ [][NextColumns]_vars

\* every comparison recorded in the three buckets
AllEntries == checker.regressions \o checker.improvements \o checker.neutral

\* the current row an entry of the first benchmark was made from
RowOf(e) ==
    CHOOSE i \in 1..Len(CurrentBench.configs) :
        Lookup(CurrentBench.configs[i], e.param) = e.param_value

\* C21 as claimed: every entry of the three buckets is for a recognized
\* backend column that both the current row and the matched baseline row
\* hold as a number or numeric string; no other column makes an entry.
C21_OnlyBackendColumns ==
    Compared =>
        \A k \in 1..Len(AllEntries) :
            LET e == AllEntries[k]
            IN  /\ e.backend \in Backends
                /\ e.benchmark = "bench-a" =>
                      /\ HasKey(CurrentBench.configs[RowOf(e)], e.backend)
                      /\ FloatOk(Lookup(CurrentBench.configs[RowOf(e)], e.backend))
                      /\ HasKey(BaselineBench.configs[RowOf(e)], e.backend)
                      /\ FloatOk(Lookup(BaselineBench.configs[RowOf(e)], e.backend))

\* the column names of a row that are not backend names, in row order
NonBackendKeys(row) == SelectSeq(Keys(row), LAMBDA key : key \notin Backends)

\* the first benchmark has no row, or a first row of backend columns only
NoParameterColumn ==
    \/ CurrentBench.configs = <<>>
    \/ NonBackendKeys(CurrentBench.configs[1]) = <<>>

\* C23: the parameter column is the first column of the first current row
\* that is not a backend name; a benchmark with a baseline counterpart and
\* no row, or with a first row of backend columns only, adds no entry to
\* any of the four buckets, stops nothing (the next benchmark is compared)
\* and its file is in files_checked.
C23_ParameterColumn ==
    Compared =>
        /\ \A k \in 1..Len(AllEntries) :
              AllEntries[k].benchmark = "bench-a" =>
                  /\ ~NoParameterColumn
                  /\ AllEntries[k].param = NonBackendKeys(CurrentBench.configs[1])[1]
        /\ NoParameterColumn => ComparisonsOf("bench-a") = {}
        /\ checker.no_baseline = <<>>
        /\ Cardinality(ComparisonsOf("bench-b")) = 1
        /\ checker.benchmark_files_checked = {AllFileNames[1]}
        /\ checker.benchmark_files_with_regressions \subseteq {AllFileNames[1]}

\* two rows of backend columns only, with a regressed value: nothing is
\* recorded for the benchmark, the next benchmark has its entry
C23_Witness ==
    /\ Compared
    /\ Len(CurrentBench.configs) = 2
    /\ NonBackendKeys(CurrentBench.configs[1]) = <<>>
    /\ Lookup(CurrentBench.configs[1], "CuTile") = Num(RegressedVal)
    /\ ComparisonsOf("bench-a") = {}
    /\ Len(checker.regressions) = 1
    /\ AllFileNames[1] \in checker.benchmark_files_checked

---------------------------------------------------------------------------
(* The merge phase: main() of merge_baseline_selective.py, started on a    *)
(* report that a check run wrote and on directories in any state.          *)

BenchNameOf(f) == AllBenchNames[FileRank(f)]

\* the per-file artifact of file f holding measurement v
Artifact(f, v) == BenchFile(f, <<Bench(BenchNameOf(f), <<Row(ParamStep, v)>>)>>)

\* the measurement of file f in the run that wrote the report
NewVal(f, regressed) == IF f \in regressed THEN RegressedVal ELSE ImprovedVal

\* the report of the check run in which the files of all were measured and
\* exactly those of regressed fell below the baseline
ReportOf(all, regressed) ==
    LET names == sorted(all)
        current == ResultSet([i \in 1..Len(names) |->
                                 Artifact(names[i], NewVal(names[i], regressed))])
        baseline == ResultSet([i \in 1..Len(names) |-> Artifact(names[i], BaseVal)])
    IN  BuildReport(compare_all(NewChecker, current, Some(baseline),
                                DefaultThreshold, DefaultThreshold),
                    DefaultThreshold, DefaultThreshold)

\* the directory holding, for each name of present, the artifact content[name]
DirOf(present, content, combined) ==
    [exists |-> TRUE,
     files |-> [n \in DirNames |->
                  IF n = Combined THEN combined
                  ELSE IF n \in present THEN Some(content[n]) ELSE None]]

OldArtifact == [f \in FileNames |-> Artifact(f, BaseVal)]
StaleArtifact == [f \in FileNames |-> Artifact(f, StaleVal)]
NewArtifact(regressed) == [f \in FileNames |-> Artifact(f, NewVal(f, regressed))]
StaleCombined == [timestamp |-> "stale", benchmarks |-> <<>>]

InitMerge ==
    /\ pc = "merge"
    /\ threshold_pct = DefaultThreshold
    /\ improvement_threshold_pct = DefaultThreshold
    /\ checker = NewChecker
    /\ current_results = ResultSet(<<>>)
    /\ baseline_results = None
    /\ result = None
    /\ \E all \in SUBSET FileNames : \E regressed \in SUBSET all :
          /\ report = Some(ReportOf(all, regressed))
          /\ \E present \in SUBSET FileNames :
                old_baseline_dir = DirOf(present, OldArtifact, None)
          /\ \E present \in SUBSET FileNames :
             \E combined \in {None, Some(ResultSet(<<>>))} :
                new_results_dir =
                    DirOf(present, NewArtifact(regressed), combined)
    /\ \/ output_dir = NoDir
       \/ \E present \in SUBSET FileNames :
          \E combined \in {None, Some(StaleCombined)} :
             output_dir = DirOf(present, StaleArtifact, combined)
    /\ replay_dir = NoDir
    /\ merge_result = None
    /\ CliIdle

\* merge_baselines(args.old_baseline, args.new_results,
\*                 args.regression_report, args.output),
\* and its replay on the same three inputs into a fresh output directory
Merge ==
    /\ pc = "merge"
    /\ IF validate_inputs(old_baseline_dir, new_results_dir, report) # 0
       THEN /\ merge_result' = Some([raised |-> "SystemExit", value |-> FALSE])
            /\ UNCHANGED <<output_dir, replay_dir>>
       ELSE LET m == merge_baselines(old_baseline_dir, new_results_dir,
                                     report[1], output_dir)
            IN  /\ output_dir' = m.out
                /\ merge_result' = Some([raised |-> m.raised, value |-> m.value])
                /\ replay_dir' = merge_baselines(old_baseline_dir, new_results_dir,
                                                 report[1], replay_dir).out
    /\ pc' = "merged"
    /\ UNCHANGED <<old_baseline_dir, new_results_dir>>
    /\ UNCHANGED checkVars
    /\ UNCHANGED cliVars

NextMerge == Merge

SpecMerge == InitMerge /\ [][NextMerge]_vars

---------------------------------------------------------------------------
(* Properties of the merge phase.                                          *)

Merged == pc = "merged"
AllFiles == Range(TheReport.benchmark_files.all_files)
RegressedFiles == Range(TheReport.benchmark_files.files_with_regressions)

\* C2: a file of all_files that is in files_with_regressions comes out as a
\* copy of the OLD file when that exists (the new file is never adopted), and
\* as a copy of the NEW file when only that exists.
C2_RegressedKeepsOld ==
    Merged =>
        \A f \in AllFiles \cap RegressedFiles :
            /\ FileExists(old_baseline_dir, f)
                 => output_dir.files[f] = old_baseline_dir.files[f]
            /\ (~FileExists(old_baseline_dir, f) /\ FileExists(new_results_dir, f))
                 => output_dir.files[f] = new_results_dir.files[f]

\* a merge that held one regressed file back although its new file exists,
\* and took the new file of another regressed one that has no old file
C2_Witness ==
    /\ Merged
    /\ \E f \in AllFiles \cap RegressedFiles :
          /\ FileExists(old_baseline_dir, f)
          /\ FileExists(new_results_dir, f)
          /\ output_dir.files[f] # new_results_dir.files[f]
    /\ \E f \in AllFiles \cap RegressedFiles :
          /\ ~FileExists(old_baseline_dir, f)
          /\ FileExists(new_results_dir, f)

\* C3: a file of all_files that is not in files_with_regressions comes out as
\* a copy of the NEW file when that exists, else as a copy of the OLD file
\* when that exists; when neither exists the merge writes no file of that
\* name (the output directory holds for it what it held before).
C3_SafeTakesNew ==
    [][(pc = "merge" /\ pc' = "merged") =>
          \A f \in AllFiles \ RegressedFiles :
              /\ FileExists(new_results_dir, f)
                   => output_dir'.files[f] = new_results_dir.files[f]
              /\ (~FileExists(new_results_dir, f) /\ FileExists(old_baseline_dir, f))
                   => output_dir'.files[f] = old_baseline_dir.files[f]
              /\ (~FileExists(new_results_dir, f) /\ ~FileExists(old_baseline_dir, f))
                   => output_dir'.files[f] = output_dir.files[f]]_vars

\* a merge that took a new file over an existing old one, fell back to the
\* old file of a second name, or left a name with no source without output
C3_Witness ==
    /\ Merged
    /\ \E f \in AllFiles \ RegressedFiles :
          /\ FileExists(new_results_dir, f)
          /\ FileExists(old_baseline_dir, f)
          /\ output_dir.files[f] = new_results_dir.files[f]
    /\ \E f \in AllFiles \ RegressedFiles :
          /\ ~FileExists(new_results_dir, f)
          /\ \/ FileExists(old_baseline_dir, f)
                  /\ output_dir.files[f] = old_baseline_dir.files[f]
             \/ ~FileExists(old_baseline_dir, f) /\ ~FileExists(output_dir, f)

Returned == Merged /\ merge_result[1].raised = ""

\* C8: a merge_baselines that returns, returns true iff no file of all_files
\* is in files_with_regressions, whatever files exist.
C8_TrueIffNoneRegressed ==
    Returned => (merge_result[1].value <=> AllFiles \cap RegressedFiles = {})

\* the per-file artifacts this merge produced
Produced ==
    {f \in AllFiles : FileExists(old_baseline_dir, f) \/ FileExists(new_results_dir, f)}

\* C9: when the merge produced at least one per-file artifact, the output
\* directory holds a combined artifact whose benchmarks list is exactly the
\* produced artifacts, one entry each, in ascending file-name order; stated
\* of the merge into a fresh output directory, where every artifact present
\* afterwards is one this merge produced.
C9_CombinedRebuilt ==
    (Merged /\ Produced # {}) =>
        /\ PerFileNames(replay_dir) = Produced
        /\ FileExists(replay_dir, Combined)
        /\ replay_dir.files[Combined][1].benchmarks
             = [i \in 1..Cardinality(Produced) |->
                   replay_dir.files[sorted(Produced)[i]][1]]

\* C10: the output directory after a merge is a function of the old baseline,
\* the new results and the report: it equals that of the replay, whatever
\* the output directory held before.
C10_MergeDeterministic ==
    Returned => output_dir = replay_dir

\* C26: a merge leaves the old-baseline directory, the new-results
\* directory and the report as they were, and in the output directory it
\* writes only the per-file artifacts named in all_files and the combined
\* artifact: every other name holds what it held before.
C26_InputsUnchanged ==
    [][(pc = "merge" /\ pc' = "merged") =>
          /\ old_baseline_dir' = old_baseline_dir
          /\ new_results_dir' = new_results_dir
          /\ report' = report
          /\ \A n \in DirNames \ (AllFiles \cup {Combined}) :
                output_dir'.files[n] = output_dir.files[n]]_vars

\* a merge into a directory that held an artifact outside all_files: the
\* artifact is still there, next to a file the merge took from the new
\* results and the combined artifact it rebuilt
C26_Witness ==
    /\ Merged
    /\ \E n \in FileNames \ AllFiles :
          /\ FileExists(output_dir, n)
          /\ output_dir.files[n] = Some(StaleArtifact[n])
    /\ \E f \in AllFiles :
          /\ FileExists(new_results_dir, f)
          /\ output_dir.files[f] = new_results_dir.files[f]
    /\ FileExists(output_dir, Combined)
    /\ output_dir.files[Combined] # Some(StaleCombined)

---------------------------------------------------------------------------
(* A merge over sources that cannot be read: per-file artifacts of the old *)
(* baseline and of the new results may be unreadable paths, and those of   *)
(* the new results may hold text that is not JSON.                         *)

\* the directory whose per-file artifacts are of the given kinds
KindDir(kind, content) ==
    [exists |-> TRUE,
     files |-> [n \in DirNames |->
                  IF n \notin FileNames \/ kind[n] = "absent" THEN None
                  ELSE IF kind[n] = "unreadable" THEN Some(Unreadable)
                  ELSE IF kind[n] = "malformed" THEN Some(Malformed)
                  ELSE Some(content[n])]]

InitMergeFail ==
    /\ pc = "merge"
    /\ threshold_pct = DefaultThreshold
    /\ improvement_threshold_pct = DefaultThreshold
    /\ checker = NewChecker
    /\ current_results = ResultSet(<<>>)
    /\ baseline_results = None
    /\ result = None
    /\ \E all \in (SUBSET FileNames) \ {{}} : \E regressed \in SUBSET all :
          /\ report = Some(ReportOf(all, regressed))
          /\ \E kind \in [FileNames -> {"absent", "unreadable", "parsed"}] :
                old_baseline_dir = KindDir(kind, OldArtifact)
          /\ \E kind \in [FileNames -> {"absent", "unreadable", "malformed", "parsed"}] :
                new_results_dir = KindDir(kind, NewArtifact(regressed))
    /\ output_dir = NoDir
    /\ replay_dir = NoDir
    /\ merge_result = None
    /\ CliIdle

SpecMergeFail == InitMergeFail /\ [][NextMerge]_vars

\* the file the per-file policy copies for f: None when neither exists
SourceFor(f) ==
    LET first == IF f \in RegressedFiles THEN old_baseline_dir ELSE new_results_dir
        second == IF f \in RegressedFiles THEN new_results_dir ELSE old_baseline_dir
    IN  IF FileExists(first, f) THEN first.files[f]
        ELSE IF FileExists(second, f) THEN second.files[f]
        ELSE None

\* C24 as claimed: a per-file artifact that cannot be read or copied does
\* not abort the merge: merge_baselines returns, and every file of
\* all_files whose source can be read comes out as the per-file policy says.
C24_FailureDoesNotAbort ==
    Merged =>
        /\ merge_result[1].raised = ""
        /\ \A f \in AllFiles :
              (SourceFor(f) # None /\ SourceFor(f) # Some(Unreadable))
                => output_dir.files[f] = SourceFor(f)

---------------------------------------------------------------------------
(* A merge on any report: the lists files_with_regressions and             *)
(* files_safe_to_update and the summary flags need not be those a check    *)
(* run derives from all_files.                                             *)

\* a report whose file lists and update flag are set independently
AnyReport(all, regressed, safe, flag) ==
    [ReportOf(all, regressed \cap all) EXCEPT
        !.benchmark_files.files_with_regressions = sorted(regressed),
        !.benchmark_files.files_safe_to_update = sorted(safe),
        !.summary.should_update_baseline = flag,
        !.summary.files_safe_to_update = Cardinality(safe)]

InitMergeAny ==
    /\ pc = "merge"
    /\ threshold_pct = DefaultThreshold
    /\ improvement_threshold_pct = DefaultThreshold
    /\ checker = NewChecker
    /\ current_results = ResultSet(<<>>)
    /\ baseline_results = None
    /\ result = None
    /\ \E all \in SUBSET FileNames, regressed \in SUBSET FileNames :
          /\ \/ report = Some(AnyReport(all, regressed, all \ regressed, FALSE))
             \/ report = Some(AnyReport(all, regressed, {}, TRUE))
             \/ report = Some(AnyReport(all, regressed, FileNames, TRUE))
          /\ \E present \in SUBSET FileNames :
                old_baseline_dir = DirOf(present, OldArtifact, None)
          /\ \E present \in SUBSET FileNames :
                new_results_dir = DirOf(present, NewArtifact(regressed), None)
    /\ \/ output_dir = NoDir
       \/ output_dir = DirOf(FileNames, StaleArtifact, None)
    /\ replay_dir = NoDir
    /\ merge_result = None
    /\ CliIdle

SpecMergeAny == InitMergeAny /\ [][NextMerge]_vars

\* C30: a merge writes no per-file artifact whose name is not in all_files
\* (an old-baseline artifact of a file absent from the run is not carried
\* over), and what it writes for a name of all_files is fixed by the name's
\* membership in files_with_regressions and by which of the old and new
\* files exist, whatever files_safe_to_update and the summary say.
C30_OnlyAllFilesResolved ==
    [][(pc = "merge" /\ pc' = "merged") =>
          \A f \in FileNames :
              output_dir'.files[f] =
                  IF f \notin AllFiles \/ SourceFor(f) = None
                  THEN output_dir.files[f]
                  ELSE SourceFor(f)]_vars

\* a merge into a fresh directory on a report whose safe list is empty: a
\* file outside all_files with an old artifact is not in the output, and a
\* file of all_files that is in neither list came out as its new file
C30_Witness ==
    /\ Merged
    /\ TheReport.benchmark_files.files_safe_to_update = <<>>
    /\ \E n \in FileNames \ AllFiles :
          /\ FileExists(old_baseline_dir, n)
          /\ ~FileExists(output_dir, n)
    /\ \E f \in AllFiles \ RegressedFiles :
          /\ FileExists(old_baseline_dir, f)
          /\ FileExists(new_results_dir, f)
          /\ output_dir.files[f] = new_results_dir.files[f]

---------------------------------------------------------------------------
(* The check process from its command line: main() of                      *)
(* check_benchmark_regression.py on directories (--current is the new      *)
(* results directory, --baseline the old baseline directory), its          *)
(* repetition on the same inputs, and the merge process after it.          *)

\* the name current before load_results has bound it
Unbound == [unbound |-> TRUE]

\* load_results(checker, current_path, baseline_path): current is loaded
\* first, the baseline only when --baseline is given; an exception of
\* either load ends the process
LoadResults ==
    /\ pc = "start"
    /\ LET current == load_results(new_results_dir)
           baseline == IF args.baseline THEN load_results(old_baseline_dir)
                       ELSE [raised |-> "", value |-> None]
       IN  IF current.raised # ""
           THEN /\ exit_status' = Some([code |-> 1, raised |-> current.raised])
                /\ pc' = "merge"
                /\ UNCHANGED <<current_results, baseline_results>>
           ELSE IF baseline.raised # ""
           THEN /\ current_results' = current.value[1]
                /\ exit_status' = Some([code |-> 1, raised |-> baseline.raised])
                /\ pc' = "merge"
                /\ UNCHANGED baseline_results
           ELSE /\ current_results' = current.value[1]
                /\ baseline_results' = baseline.value
                /\ pc' = "check"
                /\ UNCHANGED exit_status
    /\ UNCHANGED <<threshold_pct, improvement_threshold_pct, checker, result,
                   report, args, enum_order, run, first_report>>
    /\ UNCHANGED mergeVars

\* an exit code that does not ask for the strict flag
ExitCodeOnAnyRegression(a, res) == IF ~res.no_regressions THEN 1 ELSE 0

\* line 354: 1 if args.fail_on_regression and not result["no_regressions"]
ExitCode(a, res) ==
    IF a.fail_on_regression /\ ~res.no_regressions THEN 1 ELSE 0

\* sys.exit(...), reached after save_report when --output is given and
\* right after compare_all (and print_report) when it is not
Exit ==
    /\ pc = IF args.output THEN "reported" ELSE "compared"
    /\ exit_status' = Some([code |-> ExitCode(args, result[1]), raised |-> ""])
    /\ pc' = "merge"
    /\ UNCHANGED <<threshold_pct, improvement_threshold_pct, checker,
                   current_results, baseline_results, result, report,
                   args, enum_order, run, first_report>>
    /\ UNCHANGED mergeVars

\* the check process is started again on the same directories, with the
\* same command line: a new process with a fresh checker, which may meet
\* unordered collections in another order
Rerun ==
    /\ pc = "merge"
    /\ run = 1
    /\ run' = 2
    /\ first_report' = report
    /\ enum_order' \in EnumOrders
    /\ checker' = NewChecker
    /\ current_results' = Unbound
    /\ baseline_results' = None
    /\ result' = None
    /\ exit_status' = None
    /\ pc' = "start"
    /\ UNCHANGED <<threshold_pct, improvement_threshold_pct, report, args>>
    /\ UNCHANGED mergeVars

NeutralVal == 103         \* +3 %: inside the neutral zone

\* the measurements of a run in which the files of regressed fell below
\* the baseline and every other file measured gain
RunArtifact(regressed, gain) ==
    [f \in FileNames |-> Artifact(f, IF f \in regressed THEN RegressedVal ELSE gain)]

\* a directory holding result artifacts, some of them not parseable, a
\* combined artifact (or none) and possibly a file that is no artifact
LoadDirs ==
    {[exists |-> TRUE,
      files |-> [n \in DirNames |->
                   IF n = Combined THEN combined
                   ELSE IF n = ReportName THEN other
                   ELSE per_file[n]]] :
        per_file \in {[n \in FileNames |->
                          IF kind[n] = "absent" THEN None
                          ELSE IF kind[n] = "malformed" THEN Some(Malformed)
                          ELSE Some(Artifact(n, NeutralVal))] :
                      kind \in [FileNames -> {"absent", "malformed", "parsed"}]},
        combined \in {None, Some(Malformed), Some(ResultSet(<<Artifact(AllFileNames[1], StaleVal)>>))},
        other \in {None, Some(Malformed)}}

InitLoad ==
    /\ pc = "start"
    /\ threshold_pct = DefaultThreshold
    /\ improvement_threshold_pct = ImprovementThreshold(DefaultThreshold, None)
    /\ checker = NewChecker
    /\ current_results = Unbound
    /\ baseline_results = None
    /\ result = None
    /\ report = None
    /\ new_results_dir \in LoadDirs \cup {NoDir}
    /\ old_baseline_dir \in
          {NoDir, EmptyDir, DirOf(FileNames, OldArtifact, None),
           DirOf(FileNames, OldArtifact, Some(Malformed))}
    /\ output_dir = NoDir
    /\ replay_dir = NoDir
    /\ merge_result = None
    /\ \E b \in BOOLEAN : args = [DefaultArgs EXCEPT !.baseline = b]
    /\ exit_status = None
    /\ enum_order \in EnumOrders
    /\ run = 1
    /\ first_report = None

NextLoad == LoadResults

SpecLoad == InitLoad /\ [][NextLoad]_vars

InitRun ==
    /\ pc = "start"
    /\ threshold_pct = DefaultThreshold
    /\ improvement_threshold_pct = ImprovementThreshold(DefaultThreshold, None)
    /\ checker = NewChecker
    /\ current_results = Unbound
    /\ baseline_results = None
    /\ result = None
    /\ report = None
    /\ \/ new_results_dir = NoDir
       \/ \E present \in SUBSET FileNames : \E regressed \in SUBSET present :
          \E gain \in {NeutralVal, ImprovedVal} :
             new_results_dir = DirOf(present, RunArtifact(regressed, gain), None)
    /\ \/ old_baseline_dir = NoDir
       \/ \E present \in SUBSET FileNames :
             old_baseline_dir = DirOf(present, OldArtifact, None)
    /\ output_dir = NoDir
    /\ replay_dir = NoDir
    /\ merge_result = None
    /\ args \in [baseline : BOOLEAN, output : BOOLEAN, fail_on_regression : BOOLEAN]
    /\ exit_status = None
    /\ enum_order = 0
    /\ run = 1
    /\ first_report = None

NextRun == LoadResults \/ CompareAll \/ SaveReport \/ Exit \/ Rerun \/ Merge

SpecRun == InitRun /\ [][NextRun]_vars

---------------------------------------------------------------------------
(* Properties of load_results.                                             *)

\* every file load_results reads from the directory is parseable
Readable(dir) ==
    IF FileExists(dir, Combined) THEN dir.files[Combined][1] # Malformed
    ELSE \A n \in PerFileNames(dir) : dir.files[n][1] # Malformed

\* the ResultSet the directory stands for
ResultSetOf(dir) ==
    IF FileExists(dir, Combined) THEN dir.files[Combined][1]
    ELSE [benchmarks |->
             [i \in 1..Cardinality(PerFileNames(dir)) |->
                 dir.files[sorted(PerFileNames(dir))[i]][1]]]

\* C16: load_results on an existing directory whose files parse gives the
\* content of the combined artifact when there is one (the per-file
\* artifacts are not read), and otherwise the per-file artifacts named
\* *_results.json in ascending file-name order, which is an empty list and
\* no error when there is none; so for --current and for --baseline.
C16_LoadResults ==
    pc # "start" =>
        /\ (new_results_dir.exists /\ Readable(new_results_dir)) =>
              current_results = ResultSetOf(new_results_dir)
        /\ (pc = "check" /\ args.baseline) =>
              baseline_results = Some(ResultSetOf(old_baseline_dir))
        /\ (/\ new_results_dir.exists /\ Readable(new_results_dir)
            /\ args.baseline =>
                  (old_baseline_dir.exists /\ Readable(old_baseline_dir)))
              => (pc = "check" /\ exit_status = None)

\* two per-file artifacts and a file that is no artifact, met in descending
\* order, loaded in ascending order
C16_Witness ==
    /\ pc = "check"
    /\ enum_order = 1
    /\ ~FileExists(new_results_dir, Combined)
    /\ FileExists(new_results_dir, ReportName)
    /\ Len(current_results.benchmarks) >= 2
    /\ current_results.benchmarks[1].benchmark_file = AllFileNames[1]
    /\ current_results.benchmarks[2].benchmark_file = AllFileNames[2]

\* the per-file artifacts of the directory that parse
ParseableNames(dir) == {n \in PerFileNames(dir) : dir.files[n][1] # Malformed}

\* C18: load_results skips a per-file artifact that is not parseable JSON
\* and returns the ResultSet of the remaining files; the check run goes on.
C18_MalformedFileSkipped ==
    (/\ pc # "start"
     /\ new_results_dir.exists
     /\ ~FileExists(new_results_dir, Combined)
     /\ ~args.baseline)
      => /\ pc = "check"
         /\ current_results.benchmarks
              = [i \in 1..Cardinality(ParseableNames(new_results_dir)) |->
                    new_results_dir.files[
                        sorted(ParseableNames(new_results_dir))[i]][1]]

---------------------------------------------------------------------------
(* Properties of the check process and of the check -> merge cycle.        *)

Exited == exit_status # None
Completed == Exited /\ exit_status[1].raised = ""

\* C14: a check process that completes exits with code 1 iff the strict
\* flag is set and the regression bucket is not empty, and with code 0
\* otherwise; when --output is given the report of the run has been
\* written by then, and without --output no report is written.
C14_ExitCode ==
    Completed =>
        /\ exit_status[1].code
             = IF args.fail_on_regression /\ checker.regressions # <<>>
               THEN 1 ELSE 0
        /\ args.output =>
              /\ report # None
              /\ TheReport.regressions = checker.regressions
              /\ TheReport.improvements = checker.improvements
        /\ ~args.output => report = None

\* a strict run that found a regression: code 1, with the report written
C14_Witness ==
    /\ Completed
    /\ run = 1
    /\ exit_status[1].code = 1
    /\ args.output
    /\ report # None
    /\ TheReport.summary.regressions > 0

\* C15: the repetition of a check run on the same directories, thresholds
\* and command line leaves the report the first run left: the same entries
\* in the same order in every list, the same summary.
C15_CheckIdempotent ==
    (Exited /\ run = 2) => report = first_report

\* a repetition that met its collections in the other order and wrote a
\* report with two safe files and two comparisons
C15_Witness ==
    /\ Completed
    /\ run = 2
    /\ enum_order = 1
    /\ report # None
    /\ Len(TheReport.benchmark_files.files_safe_to_update) >= 2
    /\ Len(TheReport.improvements) + Len(TheReport.neutral) >= 2

\* a required input of the check process is missing
CheckInputMissing ==
    \/ ~new_results_dir.exists
    \/ args.baseline /\ ~old_baseline_dir.exists

\* a required input of the merge process is missing
MergeInputMissing ==
    \/ ~old_baseline_dir.exists
    \/ ~new_results_dir.exists
    \/ report = None

\* C17: a check process started on a missing --current or (given)
\* --baseline directory ends with FileNotFoundError before it compared or
\* wrote anything; a merge process started without the old baseline
\* directory, the new results directory or the report exits non-zero and
\* leaves the output directory uncreated.
C17_MissingInputFatal ==
    /\ (pc # "start" /\ CheckInputMissing) =>
          /\ Exited
          /\ exit_status[1].raised = "FileNotFoundError"
          /\ exit_status[1].code # 0
          /\ checker = NewChecker
          /\ result = None
          /\ report = None
    /\ (Exited /\ exit_status[1].raised = "FileNotFoundError")
          => CheckInputMissing
    /\ (Merged /\ MergeInputMissing) =>
          /\ merge_result[1].raised = "SystemExit"
          /\ output_dir = NoDir
    /\ (Merged /\ merge_result[1].raised = "SystemExit") => MergeInputMissing

\* a merge refused for its missing old baseline after a check run that
\* was given no --baseline and wrote its report
C17_Witness ==
    /\ Merged
    /\ ~old_baseline_dir.exists
    /\ new_results_dir.exists
    /\ report # None
    /\ merge_result[1].raised = "SystemExit"
    /\ PerFileNames(new_results_dir) # {}

\* C11: after a check run in which every comparison is neutral (so that
\* should_update_baseline is false) the merge leaves the baseline where it
\* was: every per-file artifact of the output equals the old one.
C11_NeutralRunKeepsBaseline ==
    (/\ Returned
     /\ TheReport.summary.regressions = 0
     /\ TheReport.summary.improvements = 0
     /\ TheReport.summary.neutral > 0
     /\ TheReport.summary.no_baseline = 0
     /\ ~TheReport.summary.should_update_baseline)
      => \A f \in FileNames :
             output_dir.files[f] = old_baseline_dir.files[f]

---------------------------------------------------------------------------
(* Cycles of check and merge: every cycle checks a new run against the     *)
(* baseline directory, merges, and hands the merged output directory to    *)
(* the next cycle as its baseline directory.                               *)

MaxCycles == 2

SlowerVal == 97                          \* -3 %: inside the neutral zone
SlowerTwiceVal == 2 * SlowerVal - BaseVal    \* -3.1 % of SlowerVal

CycleVals == {BaseVal, SlowerVal, SlowerTwiceVal}

\* the result directories a benchmark run can leave: every file measured
Measurements ==
    {DirOf(FileNames, [f \in FileNames |-> Artifact(f, val[f])], None) :
        val \in [FileNames -> CycleVals]}

InitCycles ==
    /\ pc = "start"
    /\ threshold_pct = DefaultThreshold
    /\ improvement_threshold_pct = ImprovementThreshold(DefaultThreshold, None)
    /\ checker = NewChecker
    /\ current_results = Unbound
    /\ baseline_results = None
    /\ result = None
    /\ report = None
    /\ old_baseline_dir = DirOf(FileNames, OldArtifact, None)
    /\ new_results_dir \in Measurements
    /\ output_dir = NoDir
    /\ replay_dir = NoDir
    /\ merge_result = None
    /\ CliIdle

\* the merged output directory becomes the baseline directory of the next
\* cycle, which starts on the results of a new benchmark run
NextCycle ==
    /\ pc = "merged"
    /\ merge_result[1].raised = ""
    /\ run < MaxCycles
    /\ run' = run + 1
    /\ old_baseline_dir' = output_dir
    /\ new_results_dir' \in Measurements
    /\ output_dir' = NoDir
    /\ replay_dir' = NoDir
    /\ merge_result' = None
    /\ checker' = NewChecker
    /\ current_results' = Unbound
    /\ baseline_results' = None
    /\ result' = None
    /\ report' = None
    /\ exit_status' = None
    /\ pc' = "start"
    /\ UNCHANGED <<threshold_pct, improvement_threshold_pct, args, enum_order,
                   first_report>>

NextCycles ==
    LoadResults \/ CompareAll \/ SaveReport \/ Exit \/ Merge \/ NextCycle

SpecCycles == InitCycles /\ [][NextCycles]_vars

\* the baseline directories in force: the one the cycle started from and,
\* once the merge has returned, the one it produced
BaselineDirs ==
    {old_baseline_dir}
    \cup (IF pc = "merged" /\ merge_result[1].raised = "" THEN {output_dir} ELSE {})

\* the measurement of the cell of file f in a directory
CellOf(dir, f) == Float(Lookup(dir.files[f][1].benchmarks[1].configs[1], "CuTile"))

\* C27 as claimed: over any sequence of check and merge cycles no baseline
\* value of a cell is a regression against an earlier baseline value of the
\* cell: here against the value of the first baseline, BaseVal, which every
\* cell starts from.
C27_NoRegressionAdopted ==
    \A dir \in BaselineDirs : \A f \in FileNames :
        FileExists(dir, f) =>
            100 * (CellOf(dir, f) - BaseVal) >= (0 - threshold_pct) * BaseVal

===========================================================================
